---- MODULE Spec2Model ----
(***************************************************************************)
(* Multi-signal domain availability assessment                             *)
(* (restaurant-platform-remote-v2/scripts).                                *)
(*                                                                         *)
(* The module models one domain assessment of                              *)
(*   - DomainAvailabilityChecker.comprehensive_domain_check                *)
(*     (check_dns_resolution, check_whois, check_http_response and the     *)
(*     availability assessment loop), and                                  *)
(*   - SimpleDomainChecker.quick_availability_check                        *)
(*     (check_dns_exists, check_http_exists and its assessment),           *)
(* the DNS-first scripts (quick_check, check_domain_availability,          *)
(* verify_top_domains.comprehensive_check, test_domain_check),             *)
(* generate_domain_variations, and the batch of one business name          *)
(* (check_business_name with its worker pool) inside                       *)
(* run_comprehensive_check.                                                *)
(*                                                                         *)
(* Python's True / False / None are the strings PyTrue / PyFalse / PyNone. *)
(* The outcome of a library call (resolver, WHOIS client, HTTP client) is   *)
(* a record: what it returned, or the class and text of what it raised.     *)
(***************************************************************************)
EXTENDS Integers, Sequences, FiniteSets, TLC

VARIABLES
    flow,                \* the function whose execution is modelled
    pc,                  \* position in that function
    dns_in,              \* what the resolver call did
    whois_in,            \* what the WHOIS call did
    http_in,             \* what each HTTP attempt did, in the order made
    tried,               \* the protocols the HTTP check has attempted
    checks,              \* results['checks']: signal |-> [exists, message]
    idx,                 \* assessment loop: entries of results['checks'] consumed
    availability_score,  \* assessment loop counter
    total_checks,        \* assessment loop counter
    results,             \* the verdict keys of the returned dict
    suffixes,            \* self.suffixes
    extensions,          \* self.extensions
    base_name,           \* generate_domain_variations: its argument
    variations,          \* generate_domain_variations: the list it returned
    first_variations,    \* what the first call with these inputs returned
    calls,               \* calls of generate_domain_variations made so far
    candidate_names,     \* self.candidate_names
    world,               \* domain |-> what the network answers for it
    bpc,                 \* position of the thread in run_comprehensive_check
    name_i,              \* candidate names taken by the for loop so far
    future_to_domain,    \* the domains submitted to the executor, in order
    futures,             \* domain |-> its future: state and outcome
    yielded,             \* futures as_completed has handed to the loop
    business_results,    \* check_business_name: the dict it builds
    all_results,         \* run_comprehensive_check: the dict it builds
    document,            \* the JSON result document json.dump wrote
    loaded,              \* what reading the document back gives
    files,               \* fix_api_urls: path |-> the file under FRONTEND_DIR
    fpc,                 \* fix_api_urls: position in main
    files_to_fix,        \* fix_api_urls: what the first scan returned
    fix_i,               \* fix_api_urls: files the fixing loop has taken
    fixed_files,         \* fix_api_urls: counter of main
    total_changes,       \* fix_api_urls: counter of main
    remaining            \* fix_api_urls: what the verification scan returned

\* one domain assessment
assessVars == <<flow, pc, dns_in, whois_in, http_in, tried, checks, idx,
                availability_score, total_checks, results>>

\* the variation generator
genVars == <<suffixes, extensions, base_name, variations, first_variations, calls>>

\* the batch of one business name, and the run over the candidate names
batchVars == <<candidate_names, world, bpc, name_i, future_to_domain, futures,
               yielded, business_results, all_results>>

\* the serialized result document
jsonVars == <<document, loaded>>

\* frontend/fix_api_urls.py
fixVars == <<files, fpc, files_to_fix, fix_i, fixed_files, total_changes, remaining>>

restVars == <<genVars, batchVars, jsonVars, fixVars>>

vars == <<assessVars, restVars>>

---------------------------------------------------------------------------
(* Python values *)

PyTrue == "True"

PyFalse == "False"

PyNone == "None"

TriState == {PyTrue, PyFalse, PyNone}

\* bool(x) for the three values a checker returns
Truthy(x) == x = PyTrue

---------------------------------------------------------------------------
(* str operations: str.lower() and the `in` substring test *)

UpperCase == "ABCDEFGHIJKLMNOPQRSTUVWXYZ"

LowerCase == "abcdefghijklmnopqrstuvwxyz"

LowerChar(c) ==
    IF \E i \in 1..Len(UpperCase) : SubSeq(UpperCase, i, i) = c
    THEN LET i == CHOOSE j \in 1..Len(UpperCase) : SubSeq(UpperCase, j, j) = c
         IN  SubSeq(LowerCase, i, i)
    ELSE c

RECURSIVE Lower(_)
Lower(s) ==
    IF Len(s) = 0 THEN ""
    ELSE LowerChar(SubSeq(s, 1, 1)) \o Lower(SubSeq(s, 2, Len(s)))

\* needle in hay
Contains(needle, hay) ==
    \E i \in 1..(Len(hay) - Len(needle) + 1) :
        SubSeq(hay, i, i + Len(needle) - 1) = needle

---------------------------------------------------------------------------
(* Exceptions: the classes the libraries raise and try/except matching *)

ExcParent ==
    [c \in {"Exception", "OSError", "LookupError", "IndexError", "ValueError",
            "DNSException", "NXDOMAIN", "NoAnswer", "NoNameservers",
            "LifetimeTimeout", "PywhoisError", "ConnectionResetError",
            "RequestException", "requests.ConnectionError", "requests.Timeout",
            "TooManyRedirects", "URLError", "HTTPError", "socket.timeout",
            "gaierror", "UnicodeError", "MemoryError"} |->
        CASE c = "Exception" -> "BaseException"
          [] c \in {"OSError", "LookupError", "ValueError", "DNSException",
                    "PywhoisError", "MemoryError"} -> "Exception"
          [] c = "IndexError" -> "LookupError"
          [] c = "UnicodeError" -> "ValueError"
          [] c \in {"NXDOMAIN", "NoAnswer", "NoNameservers", "LifetimeTimeout"}
                -> "DNSException"
          [] c \in {"ConnectionResetError", "RequestException", "URLError",
                    "socket.timeout", "gaierror"} -> "OSError"
          [] c \in {"requests.ConnectionError", "requests.Timeout",
                    "TooManyRedirects"} -> "RequestException"
          [] c = "HTTPError" -> "URLError"]

RECURSIVE IsInstance(_, _)
IsInstance(cls, of) ==
    \/ cls = of
    \/ cls \in DOMAIN ExcParent /\ IsInstance(ExcParent[cls], of)

\* index of the first except clause that catches cls, 0 when none does
FirstMatch(clauses, cls) ==
    IF \E i \in 1..Len(clauses) : IsInstance(cls, clauses[i])
    THEN CHOOSE i \in 1..Len(clauses) :
            /\ IsInstance(cls, clauses[i])
            /\ \A j \in 1..(i - 1) : ~IsInstance(cls, clauses[j])
    ELSE 0

Returned(v) == [kind |-> "return", value |-> v]

Raised(cls, text) == [kind |-> "raise", cls |-> cls, text |-> text]

\* a checker's own result: the (exists, message) pair it returns, or the
\* exception that escapes it
Ret(exists, message) == [raised |-> FALSE, exists |-> exists, message |-> message]

Escapes(cls, text) == [raised |-> TRUE, exists |-> cls, message |-> text]

NotRun == [kind |-> "none"]

---------------------------------------------------------------------------
(* What the external capabilities can do *)

\* dns.resolver.resolve(domain, 'A')
DnsOutcomes ==
    { Returned("answer"),
      Raised("NXDOMAIN", "The DNS query name does not exist"),
      Raised("NoAnswer", "The DNS response does not contain an answer"),
      Raised("LifetimeTimeout", "The resolution lifetime expired"),
      Raised("NoNameservers", "All nameservers failed to answer") }

\* a WhoisEntry's creation_date: None, one datetime, or a list of datetimes
NoDate == [type |-> "NoneType", items |-> <<>>]

OneDate(d) == [type |-> "datetime", items |-> <<d>>]

DateList(ds) == [type |-> "list", items |-> ds]

WhoisEntry(domain_name, creation_date) ==
    [domain_name |-> domain_name, creation_date |-> creation_date]

PywhoisTexts ==
    { "No match for domain", "NO MATCH", "no match", "Domain not found",
      "NOT FOUND", "Quota exceeded" }

\* whois.whois(domain)
WhoisOutcomes ==
    { Returned(WhoisEntry(PyNone, NoDate)),
      Returned(WhoisEntry("EXAMPLE.COM", OneDate("2019-05-01 00:00:00"))),
      Returned(WhoisEntry("EXAMPLE.COM",
                          DateList(<<"2019-05-01 00:00:00", "2019-05-02 10:00:00">>))),
      Returned(WhoisEntry("EXAMPLE.COM", DateList(<<>>))),
      Returned(WhoisEntry("EXAMPLE.COM", NoDate)),
      Raised("ConnectionResetError", "Connection reset by peer") }
    \cup { Raised("PywhoisError", t) : t \in PywhoisTexts }

\* self.session.get(url, timeout=10, allow_redirects=True)
HttpOutcomes ==
    { Returned(200), Returned(404), Returned(403), Returned(500),
      Raised("requests.ConnectionError", "Failed to establish a new connection"),
      Raised("requests.Timeout", "Read timed out"),
      Raised("TooManyRedirects", "Exceeded 30 redirects") }

\* socket.gethostbyname(domain)
SocketDnsOutcomes ==
    { Returned("93.184.216.34"),
      Raised("gaierror", "[Errno -2] Name or service not known"),
      Raised("gaierror", "[Errno 8] nodename nor servname provided, or not known"),
      Raised("gaierror", "[Errno -3] Temporary failure in name resolution"),
      Raised("UnicodeError", "label empty or too long") }

HTTPError(code) ==
    [kind |-> "raise", cls |-> "HTTPError", text |-> "HTTP Error " \o ToString(code),
     code |-> code]

\* urllib.request.urlopen(req, timeout=10), entered as a context manager
UrlopenOutcomes ==
    { Returned(200), Returned(204), HTTPError(404), HTTPError(403), HTTPError(500),
      Raised("URLError", "<urlopen error [Errno 111] Connection refused>"),
      Raised("socket.timeout", "timed out"),
      Raised("ConnectionResetError", "Connection reset by peer") }

---------------------------------------------------------------------------
(* DomainAvailabilityChecker: the three signal checkers *)

\* the NoAnswer clause is missing
check_dns_resolution_NoNoAnswer(o) ==
    IF o.kind = "return" THEN Ret(PyTrue, "Domain resolves")
    ELSE LET k == FirstMatch(<<"NXDOMAIN", "Exception">>, o.cls)
         IN  CASE k = 1 -> Ret(PyFalse, "NXDOMAIN - Domain does not exist")
               [] k = 2 -> Ret(PyNone, "DNS check failed: " \o o.text)
               [] OTHER -> Escapes(o.cls, o.text)

check_dns_resolution(o) ==
    IF o.kind = "return" THEN Ret(PyTrue, "Domain resolves")
    ELSE LET k == FirstMatch(<<"NXDOMAIN", "NoAnswer", "Exception">>, o.cls)
         IN  CASE k = 1 -> Ret(PyFalse, "NXDOMAIN - Domain does not exist")
               [] k = 2 -> Ret(PyTrue, "Domain exists but no A record")
               [] k = 3 -> Ret(PyNone, "DNS check failed: " \o o.text)
               [] OTHER -> Escapes(o.cls, o.text)

\* the except clauses of check_whois, applied to an exception raised in its try
whois_except(cls, text) ==
    LET k == FirstMatch(<<"PywhoisError", "Exception">>, cls)
    IN  CASE k = 1 ->
                IF Contains("No match", text) \/ Contains("not found", Lower(text))
                THEN Ret(PyFalse, "Domain available (WHOIS: No match)")
                ELSE Ret(PyNone, "WHOIS error: " \o text)
          [] k = 2 -> Ret(PyNone, "WHOIS check failed: " \o text)
          [] OTHER -> Escapes(cls, text)

check_whois(o) ==
    IF o.kind = "raise" THEN whois_except(o.cls, o.text)
    ELSE LET w == o.value
             cd == w.creation_date
         IN  IF w.domain_name = PyNone
             THEN Ret(PyFalse, "Domain available (no WHOIS record)")
             ELSE IF cd.type = "list"
                  THEN IF Len(cd.items) = 0
                       THEN whois_except("IndexError", "list index out of range")
                       ELSE Ret(PyTrue, "Domain registered on " \o cd.items[1])
                  ELSE IF cd.type = "NoneType"
                       THEN Ret(PyTrue, "Domain registered on None")
                       ELSE Ret(PyTrue, "Domain registered on " \o cd.items[1])

protocols == <<"https://", "http://">>

\* `continue`: the attempt failed and the for loop goes on
Continue == [raised |-> FALSE, exists |-> "continue", message |-> ""]

\* a status other than 200 and 404 lets the loop go on to the next protocol
http_response_attempt_OtherContinues(protocol, o) ==
    IF o.kind = "return"
    THEN IF o.value = 200
         THEN Ret(PyTrue, "Active website (" \o protocol \o ") - Status: "
                              \o ToString(o.value))
         ELSE IF o.value = 404
              THEN Ret(PyFalse, "No website found (" \o protocol \o ") - Status: 404")
              ELSE Continue
    ELSE IF FirstMatch(<<"requests.ConnectionError", "requests.Timeout",
                         "Exception">>, o.cls) # 0
         THEN Continue
         ELSE Escapes(o.cls, o.text)

\* an attempt that raises makes the check return Unknown
http_response_attempt_ErrorUnknown(protocol, o) ==
    IF o.kind = "return"
    THEN IF o.value = 200
         THEN Ret(PyTrue, "Active website (" \o protocol \o ") - Status: "
                              \o ToString(o.value))
         ELSE IF o.value = 404
              THEN Ret(PyFalse, "No website found (" \o protocol \o ") - Status: 404")
              ELSE Ret(PyTrue, "Website exists (" \o protocol \o ") - Status: "
                                   \o ToString(o.value))
    ELSE Ret(PyNone, "HTTP check failed: " \o o.text)

\* one iteration of check_http_response's for loop
http_response_attempt(protocol, o) ==
    IF o.kind = "return"
    THEN IF o.value = 200
         THEN Ret(PyTrue, "Active website (" \o protocol \o ") - Status: "
                              \o ToString(o.value))
         ELSE IF o.value = 404
              THEN Ret(PyFalse, "No website found (" \o protocol \o ") - Status: 404")
              ELSE Ret(PyTrue, "Website exists (" \o protocol \o ") - Status: "
                                   \o ToString(o.value))
    ELSE IF FirstMatch(<<"requests.ConnectionError", "requests.Timeout",
                         "Exception">>, o.cls) # 0
         THEN Continue
         ELSE Escapes(o.cls, o.text)

\* no response from either scheme is reported as undetermined
http_response_exhausted_Unknown == Ret(PyNone, "No HTTP response")

\* the return after the for loop has run out of protocols
http_response_exhausted == Ret(PyFalse, "No HTTP response (likely available)")

---------------------------------------------------------------------------
(* comprehensive_domain_check: the availability assessment *)

\* results['checks'] is iterated in insertion order
CheckOrder == <<"dns", "whois", "http">>

\* a vote is counted for every signal, known or not
CountStep_CountsUnknown(check_type, check_result, counts) ==
    [total_checks |-> counts.total_checks + 1,
     availability_score |->
         IF check_result.exists = PyFalse
         THEN counts.availability_score + 1
         ELSE counts.availability_score]

\* the vote is taken from exists == True
CountStep_CountsExists(check_type, check_result, counts) ==
    IF check_result.exists # PyNone
    THEN [total_checks |-> counts.total_checks + 1,
          availability_score |->
              IF check_result.exists = PyTrue
              THEN counts.availability_score + 1
              ELSE counts.availability_score]
    ELSE counts

\* the WHOIS signal is given two votes
CountStep_WhoisTwice(check_type, check_result, counts) ==
    LET w == IF check_type = "whois" THEN 2 ELSE 1
    IN  IF check_result.exists # PyNone
        THEN [total_checks |-> counts.total_checks + w,
              availability_score |->
                  IF check_result.exists = PyFalse
                  THEN counts.availability_score + w
                  ELSE counts.availability_score]
        ELSE counts

\* the body of `for check_type, check_result in results['checks'].items()`
CountStep(check_type, check_result, counts) ==
    IF check_result.exists # PyNone
    THEN [total_checks |-> counts.total_checks + 1,
          availability_score |->
              IF check_result.exists = PyFalse
              THEN counts.availability_score + 1
              ELSE counts.availability_score]
    ELSE counts

\* the votes are divided by the number of signals, known or not
Percentage_OfAllSignals(score, total) == [num |-> score * 100, den |-> Len(CheckOrder)]

\* (availability_score / total_checks) * 100, kept as the exact fraction
\* num / den.  Python computes it in binary floating point; for the counts
\* that occur the comparisons with 67 and 100 give the same answers on
\* the float as on the fraction (2/3*100 is 66.66666666666666, 3/3*100 is 100.0).
Percentage(score, total) == [num |-> score * 100, den |-> total]

PctGeq(p, n) == p.num >= n * p.den

PctEq(p, n) == p.num = n * p.den

\* the threshold lets two votes of three pass
Assessment_TwoOfThree(score, total) ==
    IF total > 0
    THEN LET availability_percentage == Percentage(score, total)
         IN  IF PctGeq(availability_percentage, 66)
             THEN [availability_score |-> availability_percentage,
                   likely_available |-> PyTrue,
                   confidence |-> IF PctEq(availability_percentage, 100)
                                  THEN "High" ELSE "Medium"]
             ELSE [availability_score |-> availability_percentage,
                   likely_available |-> PyFalse,
                   confidence |-> "Low"]
    ELSE [likely_available |-> PyNone, confidence |-> "Unknown"]

\* full agreement is not told apart from a majority
Assessment_NoHigh(score, total) ==
    IF total > 0
    THEN LET availability_percentage == Percentage(score, total)
         IN  IF PctGeq(availability_percentage, 67)
             THEN [availability_score |-> availability_percentage,
                   likely_available |-> PyTrue,
                   confidence |-> "Medium"]
             ELSE [availability_score |-> availability_percentage,
                   likely_available |-> PyFalse,
                   confidence |-> "Low"]
    ELSE [likely_available |-> PyNone, confidence |-> "Unknown"]

\* no known signal is reported as not available
Assessment_DefaultFalse(score, total) ==
    IF total > 0
    THEN LET availability_percentage == Percentage(score, total)
         IN  IF PctGeq(availability_percentage, 67)
             THEN [availability_score |-> availability_percentage,
                   likely_available |-> PyTrue,
                   confidence |-> IF PctEq(availability_percentage, 100)
                                  THEN "High" ELSE "Medium"]
             ELSE [availability_score |-> availability_percentage,
                   likely_available |-> PyFalse,
                   confidence |-> "Low"]
    ELSE [likely_available |-> PyFalse, confidence |-> "Low"]

\* the block `if total_checks > 0: ... else: ...`
Assessment(score, total) ==
    IF total > 0
    THEN LET availability_percentage == Percentage(score, total)
         IN  IF PctGeq(availability_percentage, 67)
             THEN [availability_score |-> availability_percentage,
                   likely_available |-> PyTrue,
                   confidence |-> IF PctEq(availability_percentage, 100)
                                  THEN "High" ELSE "Medium"]
             ELSE [availability_score |-> availability_percentage,
                   likely_available |-> PyFalse,
                   confidence |-> "Low"]
    ELSE [likely_available |-> PyNone, confidence |-> "Unknown"]

\* the assessment loop run over the first n entries of some results['checks']
RECURSIVE CountAll(_, _)
CountAll(c, n) ==
    IF n = 0 THEN [total_checks |-> 0, availability_score |-> 0]
    ELSE CountStep(CheckOrder[n], c[CheckOrder[n]], CountAll(c, n - 1))

\* lines 130-152 as a function of results['checks']
Aggregate(c) ==
    LET counts == CountAll(c, Len(CheckOrder))
    IN  Assessment(counts.availability_score, counts.total_checks)

---------------------------------------------------------------------------
(* comprehensive_domain_check, step by step *)

Comprehensive == "comprehensive_domain_check"

\* dns_exists, dns_msg = self.check_dns_resolution(domain)
DnsCheck ==
    /\ flow = Comprehensive
    /\ pc = "dns"
    /\ \E o \in DnsOutcomes :
          LET r == check_dns_resolution(o)
          IN  /\ dns_in' = o
              /\ IF r.raised
                 THEN /\ pc' = "raised"
                      /\ UNCHANGED checks
                 ELSE /\ pc' = "whois"
                      /\ checks' = ("dns" :> [exists |-> r.exists, message |-> r.message])
                                       @@ checks
    /\ UNCHANGED <<flow, whois_in, http_in, tried, idx, availability_score,
                   total_checks, results>>
    /\ UNCHANGED restVars

\* whois_exists, whois_msg = self.check_whois(domain)
WhoisCheck ==
    /\ flow = Comprehensive
    /\ pc = "whois"
    /\ \E o \in WhoisOutcomes :
          LET r == check_whois(o)
          IN  /\ whois_in' = o
              /\ IF r.raised
                 THEN /\ pc' = "raised"
                      /\ UNCHANGED checks
                 ELSE /\ pc' = "http"
                      /\ checks' = ("whois" :> [exists |-> r.exists, message |-> r.message])
                                       @@ checks
    /\ UNCHANGED <<flow, dns_in, http_in, tried, idx, availability_score,
                   total_checks, results>>
    /\ UNCHANGED restVars

\* http_exists, http_msg = self.check_http_response(domain): one attempt of
\* its for loop, and the return after the loop when it was the last
HttpAttempt ==
    /\ flow = Comprehensive
    /\ pc = "http"
    /\ Len(tried) < Len(protocols)
    /\ \E o \in HttpOutcomes :
          LET protocol == protocols[Len(tried) + 1]
              r == http_response_attempt(protocol, o)
              last == Len(tried) + 1 = Len(protocols)
              ret == IF r = Continue THEN http_response_exhausted ELSE r
          IN  /\ http_in' = Append(http_in, o)
              /\ tried' = Append(tried, protocol)
              /\ IF r.raised
                 THEN /\ pc' = "raised"
                      /\ UNCHANGED checks
                 ELSE IF r = Continue /\ ~last
                      THEN UNCHANGED <<pc, checks>>
                      ELSE /\ pc' = "loop"
                           /\ checks' = ("http" :> [exists |-> ret.exists,
                                                    message |-> ret.message])
                                            @@ checks
    /\ UNCHANGED <<flow, dns_in, whois_in, idx, availability_score,
                   total_checks, results>>
    /\ UNCHANGED restVars

\* one iteration of the assessment loop
LoopStep ==
    /\ flow = Comprehensive
    /\ pc = "loop"
    /\ idx < Len(CheckOrder)
    /\ LET counts == CountStep(CheckOrder[idx + 1], checks[CheckOrder[idx + 1]],
                               [total_checks |-> total_checks,
                                availability_score |-> availability_score])
       IN  /\ total_checks' = counts.total_checks
           /\ availability_score' = counts.availability_score
    /\ idx' = idx + 1
    /\ UNCHANGED <<flow, pc, dns_in, whois_in, http_in, tried, checks, results>>
    /\ UNCHANGED restVars

\* the verdict, and `return results`
Assess ==
    /\ flow = Comprehensive
    /\ pc = "loop"
    /\ idx = Len(CheckOrder)
    /\ results' = Assessment(availability_score, total_checks)
    /\ pc' = "done"
    /\ UNCHANGED <<flow, dns_in, whois_in, http_in, tried, checks, idx,
                   availability_score, total_checks>>
    /\ UNCHANGED restVars

---------------------------------------------------------------------------
(* SimpleDomainChecker: its two signal checkers and quick_availability_check *)

check_dns_exists(o) ==
    IF o.kind = "return" THEN Ret(PyTrue, "Domain resolves to IP")
    ELSE LET k == FirstMatch(<<"gaierror", "Exception">>, o.cls)
         IN  CASE k = 1 ->
                    IF \/ Contains("Name or service not known", o.text)
                       \/ Contains("nodename nor servname provided", o.text)
                    THEN Ret(PyFalse, "Domain does not resolve (likely available)")
                    ELSE Ret(PyNone, "DNS error: " \o o.text)
               [] k = 2 -> Ret(PyNone, "DNS check failed: " \o o.text)
               [] OTHER -> Escapes(o.cls, o.text)

\* one iteration of check_http_exists's for loop
http_exists_attempt(protocol, o) ==
    IF o.kind = "return"
    THEN IF o.value = 200
         THEN Ret(PyTrue, "Active website (" \o protocol \o ") - Status: "
                              \o ToString(o.value))
         ELSE Ret(PyTrue, "Website exists (" \o protocol \o ") - Status: "
                              \o ToString(o.value))
    ELSE LET k == FirstMatch(<<"HTTPError", "URLError", "Exception">>, o.cls)
         IN  CASE k = 1 ->
                    IF o.code = 404
                    THEN Ret(PyFalse, "No website content (" \o protocol
                                          \o ") - Status: 404")
                    ELSE Ret(PyTrue, "Website exists but error (" \o protocol
                                         \o ") - Status: " \o ToString(o.code))
               [] k \in {2, 3} -> Continue
               [] OTHER -> Escapes(o.cls, o.text)

\* the return after the for loop has run out of protocols
http_exists_exhausted == Ret(PyFalse, "No HTTP response (likely no active website)")

\* the local http_exists is bound only on the branch that runs the HTTP check
Unbound == "unbound"

\* a resolving domain without a website is taken as available
quick_assessment_HttpDecides(dns_exists, http_exists) ==
    IF dns_exists = PyFalse
    THEN [likely_available |-> PyTrue, confidence |-> "High",
          reason |-> "Domain does not resolve"]
    ELSE IF dns_exists = PyTrue /\ http_exists = PyFalse
         THEN [likely_available |-> PyTrue, confidence |-> "Medium",
               reason |-> "Domain resolves but no active website"]
         ELSE IF dns_exists = PyTrue /\ http_exists = PyTrue
              THEN [likely_available |-> PyFalse, confidence |-> "High",
                    reason |-> "Domain has active website"]
              ELSE [likely_available |-> PyNone, confidence |-> "Unknown",
                    reason |-> "Unable to determine status"]

\* `# Simple availability assessment`
quick_assessment(dns_exists, http_exists) ==
    IF dns_exists = PyFalse
    THEN [likely_available |-> PyTrue, confidence |-> "High",
          reason |-> "Domain does not resolve"]
    ELSE IF dns_exists = PyTrue /\ http_exists = PyFalse
         THEN [likely_available |-> PyFalse, confidence |-> "Medium",
               reason |-> "Domain resolves but no active website"]
         ELSE IF dns_exists = PyTrue /\ http_exists = PyTrue
              THEN [likely_available |-> PyFalse, confidence |-> "High",
                    reason |-> "Domain has active website"]
              ELSE [likely_available |-> PyNone, confidence |-> "Unknown",
                    reason |-> "Unable to determine status"]

Quick == "quick_availability_check"

\* dns_exists, dns_msg = self.check_dns_exists(domain), and the else branch
\* of `if dns_exists:` when the HTTP check is not run
QuickDnsCheck ==
    /\ flow = Quick
    /\ pc = "dns"
    /\ \E o \in SocketDnsOutcomes :
          LET r == check_dns_exists(o)
              dns == "dns" :> [exists |-> r.exists, message |-> r.message]
          IN  /\ dns_in' = o
              /\ IF r.raised
                 THEN /\ pc' = "raised"
                      /\ UNCHANGED checks
                 ELSE IF Truthy(r.exists)
                      THEN /\ pc' = "http"
                           /\ checks' = dns @@ checks
                      ELSE /\ pc' = "assess"
                           /\ checks' =
                                ("http" :> [exists |-> PyFalse,
                                            message |-> "No DNS resolution, no HTTP check needed"])
                                    @@ dns @@ checks
    /\ UNCHANGED <<flow, whois_in, http_in, tried, idx, availability_score,
                   total_checks, results>>
    /\ UNCHANGED restVars

\* http_exists, http_msg = self.check_http_exists(domain): one attempt of its
\* for loop, and the return after the loop when it was the last
QuickHttpAttempt ==
    /\ flow = Quick
    /\ pc = "http"
    /\ Len(tried) < Len(protocols)
    /\ \E o \in UrlopenOutcomes :
          LET protocol == protocols[Len(tried) + 1]
              r == http_exists_attempt(protocol, o)
              last == Len(tried) + 1 = Len(protocols)
              ret == IF r = Continue THEN http_exists_exhausted ELSE r
          IN  /\ http_in' = Append(http_in, o)
              /\ tried' = Append(tried, protocol)
              /\ IF r.raised
                 THEN /\ pc' = "raised"
                      /\ UNCHANGED checks
                 ELSE IF r = Continue /\ ~last
                      THEN UNCHANGED <<pc, checks>>
                      ELSE /\ pc' = "assess"
                           /\ checks' = ("http" :> [exists |-> ret.exists,
                                                    message |-> ret.message])
                                            @@ checks
    /\ UNCHANGED <<flow, dns_in, whois_in, idx, availability_score,
                   total_checks, results>>
    /\ UNCHANGED restVars

\* the assessment, and `return result`
QuickAssess ==
    /\ flow = Quick
    /\ pc = "assess"
    /\ results' = quick_assessment(checks["dns"].exists,
                                   IF Len(tried) > 0 THEN checks["http"].exists
                                   ELSE Unbound)
    /\ pc' = "done"
    /\ UNCHANGED <<flow, dns_in, whois_in, http_in, tried, checks, idx,
                   availability_score, total_checks>>
    /\ UNCHANGED restVars

---------------------------------------------------------------------------
(* The DNS-first scripts: quick_candidate_check.quick_check,               *)
(* final_domain_analysis.check_domain_availability,                        *)
(* verify_top_domains.comprehensive_check, test_domain_checker.test_domain_check *)

QuickCheck == "quick_check"

CheckDomainAvailability == "check_domain_availability"

ComprehensiveCheck == "comprehensive_check"

TestDomainCheck == "test_domain_check"

\* quick_candidate_check.quick_check: the status string it returns
quick_check(o) ==
    IF o.kind = "return" THEN Ret("REGISTERED", "")
    ELSE LET k == FirstMatch(<<"gaierror", "Exception">>, o.cls)
         IN  CASE k = 1 -> Ret("AVAILABLE", "")
               [] k = 2 -> Ret("UNKNOWN", "")
               [] OTHER -> Escapes(o.cls, o.text)

\* final_domain_analysis.check_domain_availability: True means available
check_domain_availability(o) ==
    IF o.kind = "return" THEN Ret(PyFalse, "")
    ELSE LET k == FirstMatch(<<"gaierror", "Exception">>, o.cls)
         IN  CASE k = 1 -> Ret(PyTrue, "")
               [] k = 2 -> Ret(PyNone, "")
               [] OTHER -> Escapes(o.cls, o.text)

\* verify_top_domains.comprehensive_check, `# DNS Check`: results['dns_resolves']
verify_dns(o) ==
    IF o.kind = "return" THEN Ret(PyTrue, "")
    ELSE LET k == FirstMatch(<<"gaierror", "Exception">>, o.cls)
         IN  CASE k = 1 -> Ret(PyFalse, "")
               [] k = 2 -> Ret(PyNone, "")
               [] OTHER -> Escapes(o.cls, o.text)

\* test_domain_checker.test_domain_check, `# DNS Check`: dns_exists
test_dns(o) ==
    IF o.kind = "return" THEN Ret(PyTrue, "")
    ELSE LET k == FirstMatch(<<"gaierror">>, o.cls)
         IN  CASE k = 1 -> Ret(PyFalse, "")
               [] OTHER -> Escapes(o.cls, o.text)

\* one iteration of comprehensive_check's protocol loop: results['has_website']
\* and break, or continue
verify_http_attempt(o) ==
    IF o.kind = "return" THEN Ret(PyTrue, "")
    ELSE LET k == FirstMatch(<<"HTTPError", "URLError", "Exception">>, o.cls)
         IN  CASE k = 1 -> IF o.code = 404 THEN Ret(PyFalse, "") ELSE Ret(PyTrue, "")
               [] k \in {2, 3} -> Continue
               [] OTHER -> Escapes(o.cls, o.text)

\* one iteration of test_domain_check's protocol loop: return "REGISTERED",
\* or go on with the next protocol
test_http_attempt(o) ==
    IF o.kind = "return" THEN Ret("REGISTERED", "")
    ELSE LET k == FirstMatch(<<"HTTPError", "URLError", "Exception">>, o.cls)
         IN  CASE k \in {1, 2, 3} -> Continue
               [] OTHER -> Escapes(o.cls, o.text)

\* comprehensive_check, `# Overall assessment`
verify_assessment(dns_resolves, has_website) ==
    IF dns_resolves = PyFalse THEN "AVAILABLE"
    ELSE IF dns_resolves = PyTrue /\ has_website = PyFalse THEN "REGISTERED_PARKED"
         ELSE IF dns_resolves = PyTrue /\ has_website = PyTrue THEN "REGISTERED_ACTIVE"
              ELSE "UNKNOWN"

\* status = quick_check(domain)
QuickCandidateCheck ==
    /\ flow = QuickCheck
    /\ pc = "dns"
    /\ \E o \in SocketDnsOutcomes :
          LET r == quick_check(o)
          IN  /\ dns_in' = o
              /\ IF r.raised
                 THEN pc' = "raised" /\ UNCHANGED results
                 ELSE pc' = "done" /\ results' = [status |-> r.exists]
    /\ UNCHANGED <<flow, whois_in, http_in, tried, checks, idx, availability_score,
                   total_checks>>
    /\ UNCHANGED restVars

\* check_domain_availability(domain)
FinalAnalysisCheck ==
    /\ flow = CheckDomainAvailability
    /\ pc = "dns"
    /\ \E o \in SocketDnsOutcomes :
          LET r == check_domain_availability(o)
          IN  /\ dns_in' = o
              /\ IF r.raised
                 THEN pc' = "raised" /\ UNCHANGED results
                 ELSE pc' = "done" /\ results' = [available |-> r.exists]
    /\ UNCHANGED <<flow, whois_in, http_in, tried, checks, idx, availability_score,
                   total_checks>>
    /\ UNCHANGED restVars

\* comprehensive_check: the DNS check, and the else branch of
\* `if results['dns_resolves']:` when the HTTP check is not run
VerifyDnsCheck ==
    /\ flow = ComprehensiveCheck
    /\ pc = "dns"
    /\ \E o \in SocketDnsOutcomes :
          LET r == verify_dns(o)
              dns == "dns" :> [exists |-> r.exists, message |-> ""]
          IN  /\ dns_in' = o
              /\ IF r.raised
                 THEN pc' = "raised" /\ UNCHANGED checks
                 ELSE IF Truthy(r.exists)
                      THEN pc' = "http" /\ checks' = dns @@ checks
                      ELSE /\ pc' = "assess"
                           /\ checks' = ("http" :> [exists |-> PyFalse, message |-> ""])
                                            @@ dns @@ checks
    /\ UNCHANGED <<flow, whois_in, http_in, tried, idx, availability_score,
                   total_checks, results>>
    /\ UNCHANGED restVars

\* comprehensive_check: one attempt of the protocol loop, and
\* `if results['has_website'] is None` after the loop when it was the last
VerifyHttpAttempt ==
    /\ flow = ComprehensiveCheck
    /\ pc = "http"
    /\ Len(tried) < Len(protocols)
    /\ \E o \in UrlopenOutcomes :
          LET protocol == protocols[Len(tried) + 1]
              r == verify_http_attempt(o)
              last == Len(tried) + 1 = Len(protocols)
              has_website == IF r = Continue THEN PyFalse ELSE r.exists
          IN  /\ http_in' = Append(http_in, o)
              /\ tried' = Append(tried, protocol)
              /\ IF r.raised
                 THEN pc' = "raised" /\ UNCHANGED checks
                 ELSE IF r = Continue /\ ~last
                      THEN UNCHANGED <<pc, checks>>
                      ELSE /\ pc' = "assess"
                           /\ checks' = ("http" :> [exists |-> has_website, message |-> ""])
                                            @@ checks
    /\ UNCHANGED <<flow, dns_in, whois_in, idx, availability_score,
                   total_checks, results>>
    /\ UNCHANGED restVars

\* comprehensive_check: the overall assessment, and `return results`
VerifyAssess ==
    /\ flow = ComprehensiveCheck
    /\ pc = "assess"
    /\ results' = [likely_status |->
                      verify_assessment(checks["dns"].exists, checks["http"].exists)]
    /\ pc' = "done"
    /\ UNCHANGED <<flow, dns_in, whois_in, http_in, tried, checks, idx,
                   availability_score, total_checks>>
    /\ UNCHANGED restVars

\* test_domain_check: the DNS check, and `return "LIKELY_AVAILABLE"` when
\* dns_exists is false
TestDnsCheck ==
    /\ flow = TestDomainCheck
    /\ pc = "dns"
    /\ \E o \in SocketDnsOutcomes :
          LET r == test_dns(o)
              dns == "dns" :> [exists |-> r.exists, message |-> ""]
          IN  /\ dns_in' = o
              /\ IF r.raised
                 THEN pc' = "raised" /\ UNCHANGED <<checks, results>>
                 ELSE IF Truthy(r.exists)
                      THEN pc' = "http" /\ checks' = dns @@ checks /\ UNCHANGED results
                      ELSE /\ pc' = "done"
                           /\ checks' = dns @@ checks
                           /\ results' = [status |-> "LIKELY_AVAILABLE"]
    /\ UNCHANGED <<flow, whois_in, http_in, tried, idx, availability_score,
                   total_checks>>
    /\ UNCHANGED restVars

\* test_domain_check: one attempt of the protocol loop, and
\* `return "DOMAIN_EXISTS_NO_SITE"` after the loop when it was the last
TestHttpAttempt ==
    /\ flow = TestDomainCheck
    /\ pc = "http"
    /\ Len(tried) < Len(protocols)
    /\ \E o \in UrlopenOutcomes :
          LET protocol == protocols[Len(tried) + 1]
              r == test_http_attempt(o)
              last == Len(tried) + 1 = Len(protocols)
          IN  /\ http_in' = Append(http_in, o)
              /\ tried' = Append(tried, protocol)
              /\ IF r.raised
                 THEN pc' = "raised" /\ UNCHANGED results
                 ELSE IF r = Continue /\ ~last
                      THEN UNCHANGED <<pc, results>>
                      ELSE /\ pc' = "done"
                           /\ results' = [status |-> IF r = Continue
                                                     THEN "DOMAIN_EXISTS_NO_SITE"
                                                     ELSE r.exists]
    /\ UNCHANGED <<flow, dns_in, whois_in, checks, idx, availability_score,
                   total_checks>>
    /\ UNCHANGED restVars

---------------------------------------------------------------------------
(* main: json.dump(results, f, indent=2), and reading the document back *)

Quote == "\""

\* None is written as false
json_encode_NoneAsFalse(v) ==
    CASE v = PyTrue -> "true"
      [] v = PyFalse -> "false"
      [] v = PyNone -> "false"
      [] OTHER -> Quote \o v \o Quote

\* the JSON text of a scalar of the result dict: a bool, None, or a str
\* (no str of the results is spelled like PyTrue, PyFalse or PyNone)
json_encode(v) ==
    CASE v = PyTrue -> "true"
      [] v = PyFalse -> "false"
      [] v = PyNone -> "null"
      [] OTHER -> Quote \o v \o Quote

\* the Python value of a JSON scalar text
json_decode(t) ==
    CASE t = "true" -> PyTrue
      [] t = "false" -> PyFalse
      [] t = "null" -> PyNone
      [] OTHER -> SubSeq(t, 2, Len(t) - 1)

\* the document of one assessment: JSON texts under the keys of the dict
json_dump(c, r) ==
    [checks |-> [k \in DOMAIN c |-> [exists |-> json_encode(c[k].exists),
                                     message |-> json_encode(c[k].message)]],
     likely_available |-> json_encode(r.likely_available),
     confidence |-> json_encode(r.confidence)]

json_load(doc) ==
    [checks |-> [k \in DOMAIN doc.checks |->
                    [exists |-> json_decode(doc.checks[k].exists),
                     message |-> json_decode(doc.checks[k].message)]],
     likely_available |-> json_decode(doc.likely_available),
     confidence |-> json_decode(doc.confidence)]

\* json.dump of the results that hold the assessment
Dump ==
    /\ flow \in {Comprehensive, Quick}
    /\ pc = "done"
    /\ document' = json_dump(checks, results)
    /\ pc' = "dumped"
    /\ UNCHANGED <<flow, dns_in, whois_in, http_in, tried, checks, idx,
                   availability_score, total_checks, results, loaded>>
    /\ UNCHANGED <<genVars, batchVars, fixVars>>

\* json.load of the document
Load ==
    /\ pc = "dumped"
    /\ loaded' = json_load(document)
    /\ pc' = "loaded"
    /\ UNCHANGED <<flow, dns_in, whois_in, http_in, tried, checks, idx,
                   availability_score, total_checks, results, document>>
    /\ UNCHANGED <<genVars, batchVars, fixVars>>

---------------------------------------------------------------------------
(* Specifications *)

\* business_results before check_business_name has been called
NoReport ==
    [business_name |-> "", total_variations |-> 0, domains_checked |-> <<>>,
     available_domains |-> <<>>, registered_domains |-> <<>>,
     summary |-> <<>>]

\* all_results before run_comprehensive_check has been called
NoRun ==
    [business_names |-> <<>>,
     overall_summary |-> [total_names_checked |-> 0,
                          names_with_com_available |-> 0,
                          best_opportunities |-> <<>>]]

\* run_comprehensive_check is not running
BatchIdle ==
    /\ candidate_names = <<>>
    /\ world = <<>>
    /\ bpc = "idle"
    /\ name_i = 0
    /\ future_to_domain = <<>>
    /\ futures = <<>>
    /\ yielded = {}
    /\ business_results = NoReport
    /\ all_results = NoRun

\* nothing has been serialized
JsonIdle == document = <<>> /\ loaded = <<>>

\* fix_api_urls.py is not running
FixIdle ==
    /\ files = <<>>
    /\ fpc = "idle"
    /\ files_to_fix = <<>>
    /\ fix_i = 0
    /\ fixed_files = 0
    /\ total_changes = 0
    /\ remaining = <<>>

\* nothing but the one assessment is running
RestIdle ==
    /\ BatchIdle
    /\ FixIdle
    /\ JsonIdle
    /\ suffixes = <<>>
    /\ extensions = <<>>
    /\ base_name = ""
    /\ variations = <<>>
    /\ first_variations = <<>>
    /\ calls = 0

NoResults == [likely_available |-> "unset", confidence |-> "unset"]

\* a call of one of the per-domain check functions, before its first probe
Init ==
    /\ flow \in {Comprehensive, Quick, QuickCheck, CheckDomainAvailability,
                 ComprehensiveCheck, TestDomainCheck}
    /\ pc = "dns"
    /\ dns_in = NotRun
    /\ whois_in = NotRun
    /\ http_in = <<>>
    /\ tried = <<>>
    /\ checks = <<>>
    /\ idx = 0
    /\ availability_score = 0
    /\ total_checks = 0
    /\ results = NoResults
    /\ RestIdle

Next ==
    \/ DnsCheck
    \/ WhoisCheck
    \/ HttpAttempt
    \/ LoopStep
    \/ Assess
    \/ QuickDnsCheck
    \/ QuickHttpAttempt
    \/ QuickAssess
    \/ QuickCandidateCheck
    \/ FinalAnalysisCheck
    \/ VerifyDnsCheck
    \/ VerifyHttpAttempt
    \/ VerifyAssess
    \/ TestDnsCheck
    \/ TestHttpAttempt
    \/ Dump
    \/ Load

Spec == Init /\ [][Next]_vars

\* The assessment (lines 130-152) on its own: results['checks'] holds any
\* three tri-state signals, as when the checkers are replaced by stubs.
StubMessage == "stub"

AggInit ==
    /\ flow = Comprehensive
    /\ pc = "loop"
    /\ dns_in = NotRun
    /\ whois_in = NotRun
    /\ http_in = <<>>
    /\ tried = <<>>
    /\ \E d, w, h \in TriState :
          checks = [k \in {"dns", "whois", "http"} |->
                       [exists |-> CASE k = "dns" -> d [] k = "whois" -> w [] OTHER -> h,
                        message |-> StubMessage]]
    /\ idx = 0
    /\ availability_score = 0
    /\ total_checks = 0
    /\ results = NoResults
    /\ RestIdle

AggNext ==
    \/ LoopStep
    \/ Assess

AggSpec == AggInit /\ [][AggNext]_vars

---------------------------------------------------------------------------
(* Properties of the assessment *)

\* comprehensive_domain_check has returned
Done == flow = Comprehensive /\ pc = "done"

Sig(k) == checks[k].exists

NumKnown == Cardinality({k \in DOMAIN checks : Sig(k) # PyNone})

NumDoesNotExist == Cardinality({k \in DOMAIN checks : Sig(k) = PyFalse})

HasScore == "availability_score" \in DOMAIN results

\* C1: when all three signals are known and exactly two of them are
\* DoesNotExist (the third Exists), comprehensive_domain_check returns
\* likely_available = True with confidence Medium.
C1_TwoOfThreeIsPositive ==
    (Done /\ NumKnown = 3 /\ NumDoesNotExist = 2)
        => /\ results.likely_available = PyTrue
           /\ results.confidence = "Medium"

\* C2: when DNS, WHOIS and HTTP are all DoesNotExist, the assessment has
\* availability_score = 100, likely_available = True and confidence = High.
C2_AllDoesNotExist ==
    (Done /\ \A k \in DOMAIN checks : Sig(k) = PyFalse)
        => /\ HasScore
           /\ PctEq(results.availability_score, 100)
           /\ results.likely_available = PyTrue
           /\ results.confidence = "High"

C2_Witness ==
    /\ Done
    /\ dns_in.kind = "raise" /\ dns_in.cls = "NXDOMAIN"
    /\ whois_in.kind = "return" /\ whois_in.value.domain_name = PyNone
    /\ Len(http_in) = 2
    /\ \A k \in DOMAIN checks : Sig(k) = PyFalse

\* C3: when DNS, WHOIS and HTTP are all Exists, the assessment has
\* availability_score = 0, likely_available = False and confidence = Low.
C3_AllExist ==
    (Done /\ \A k \in DOMAIN checks : Sig(k) = PyTrue)
        => /\ HasScore
           /\ PctEq(results.availability_score, 0)
           /\ results.likely_available = PyFalse
           /\ results.confidence = "Low"

C3_Witness ==
    /\ Done
    /\ dns_in.kind = "return"
    /\ whois_in.kind = "return" /\ whois_in.value.creation_date.type = "datetime"
    /\ http_in = <<Returned(200)>>
    /\ \A k \in DOMAIN checks : Sig(k) = PyTrue

\* C4: when exactly one of the three signals is Unknown, whichever it is, and
\* the other two are DoesNotExist, availability_score = 100 and confidence = High.
C4_OneUnknownTwoDoesNotExist ==
    (Done /\ NumKnown = 2 /\ NumDoesNotExist = 2)
        => /\ HasScore
           /\ PctEq(results.availability_score, 100)
           /\ results.confidence = "High"

C4_Witness ==
    /\ Done
    /\ Sig("dns") = PyFalse /\ Sig("whois") = PyFalse /\ Sig("http") = PyNone
    /\ results.confidence = "High"

\* C5: when all three signals are Unknown, likely_available is None (neither
\* True nor False), confidence is Unknown and no availability_score is produced.
C5_AllUnknown ==
    (Done /\ NumKnown = 0)
        => /\ results.likely_available = PyNone
           /\ results.confidence = "Unknown"
           /\ ~HasScore

C5_Witness ==
    /\ Done
    /\ \A k \in {"dns", "whois", "http"} : Sig(k) = PyNone
    /\ DOMAIN results = {"likely_available", "confidence"}

\* C6: with at least one known signal, availability_score is
\* 100 * (signals equal to DoesNotExist) / (signals not Unknown); Unknown
\* signals count in neither.  DNS = Exists, HTTP = Exists, WHOIS = Unknown gives
\* score 0, likely_available False, confidence Low.
C6_ScoreFormula ==
    /\ (Done /\ NumKnown > 0)
          => /\ HasScore
             /\ results.availability_score.num * NumKnown
                    = 100 * NumDoesNotExist * results.availability_score.den
    /\ (Done /\ Sig("dns") = PyTrue /\ Sig("http") = PyTrue /\ Sig("whois") = PyNone)
          => /\ HasScore
             /\ PctEq(results.availability_score, 0)
             /\ results.likely_available = PyFalse
             /\ results.confidence = "Low"

C6_Witness ==
    /\ Done
    /\ Sig("dns") = PyTrue /\ Sig("http") = PyTrue /\ Sig("whois") = PyNone
    /\ HasScore
    /\ total_checks = 2

\* the verdicts of two assessments agree
SameVerdict(r1, r2) ==
    /\ r1.likely_available = r2.likely_available
    /\ r1.confidence = r2.confidence
    /\ DOMAIN r1 = DOMAIN r2
    /\ "availability_score" \in DOMAIN r1
          => r1.availability_score.num * r2.availability_score.den
                 = r2.availability_score.num * r1.availability_score.den

CheckPermutations ==
    {p \in [DOMAIN checks -> DOMAIN checks] : \A k \in DOMAIN checks : \E j \in DOMAIN checks : p[j] = k}

\* C7: the assessment is symmetric in its three signals: giving the tri-state
\* values to DNS, WHOIS and HTTP in any other order yields the same
\* availability_score, likely_available and confidence.
C7_Symmetric ==
    Done => \A p \in CheckPermutations :
                SameVerdict(results, Aggregate([k \in DOMAIN checks |-> checks[p[k]]]))

C7_Witness ==
    /\ Done
    /\ Sig("dns") = PyTrue /\ Sig("whois") = PyFalse /\ Sig("http") = PyFalse
    /\ SameVerdict(results,
                   Aggregate([k \in DOMAIN checks |->
                                 checks[CASE k = "dns" -> "whois"
                                          [] k = "whois" -> "dns"
                                          [] OTHER -> "http"]]))

---------------------------------------------------------------------------
(* Properties of the signal checkers *)

\* an HTTP attempt that got no response: the call raised, and what it raised
\* is not a status (urllib reports a status >= 400 by raising HTTPError)
AttemptFailed(o) == o.kind = "raise" /\ ~IsInstance(o.cls, "HTTPError")

\* the HTTP check was run and has returned its verdict
HttpReturned == Len(tried) > 0 /\ "http" \in DOMAIN checks

NoResponseMessages ==
    { "No HTTP response (likely available)",
      "No HTTP response (likely no active website)" }

\* C8: when both the https and the http attempt fail to connect (connection
\* error, timeout or any other exception) the HTTP check returns DoesNotExist,
\* not Unknown, and it returns that no-response verdict only after both
\* schemes have been tried.
C8_BothFailIsDoesNotExist ==
    flow \in {Comprehensive, Quick} =>
        /\ (/\ Len(http_in) = Len(protocols)
            /\ \A i \in 1..Len(http_in) : AttemptFailed(http_in[i]))
              => /\ HttpReturned
                 /\ checks["http"].exists = PyFalse
                 /\ checks["http"].message \in NoResponseMessages
        /\ (HttpReturned /\ checks["http"].message \in NoResponseMessages)
              => /\ tried = protocols
                 /\ \A i \in 1..Len(http_in) : AttemptFailed(http_in[i])
        /\ (Len(http_in) = 1 /\ AttemptFailed(http_in[1])) => ~HttpReturned

C8_Witness ==
    /\ flow = Comprehensive
    /\ Len(http_in) = 2
    /\ http_in[1].kind = "raise" /\ http_in[1].cls = "requests.Timeout"
    /\ http_in[2].kind = "raise" /\ http_in[2].cls = "TooManyRedirects"
    /\ tried = <<"https://", "http://">>
    /\ HttpReturned
    /\ checks["http"].exists = PyFalse

\* C9: check_dns_resolution never raises and maps every resolver outcome:
\* an answer gives Exists, NXDOMAIN gives DoesNotExist, NoAnswer gives Exists,
\* every other failure gives Unknown with the error text in the reason.
C9_DnsMapping ==
    (flow = Comprehensive /\ dns_in.kind # "none")
        => /\ "dns" \in DOMAIN checks
           /\ dns_in.kind = "return" => checks["dns"].exists = PyTrue
           /\ dns_in.kind = "raise" =>
                 /\ dns_in.cls = "NXDOMAIN" => checks["dns"].exists = PyFalse
                 /\ dns_in.cls = "NoAnswer" => checks["dns"].exists = PyTrue
                 /\ dns_in.cls \notin {"NXDOMAIN", "NoAnswer"}
                       => /\ checks["dns"].exists = PyNone
                          /\ Contains(dns_in.text, checks["dns"].message)

C9_Witness ==
    /\ flow = Comprehensive
    /\ dns_in.kind = "raise"
    /\ dns_in.cls = "LifetimeTimeout"
    /\ checks["dns"].exists = PyNone
    /\ checks["dns"].message = "DNS check failed: The resolution lifetime expired"

\* the error text says "no match" or "not found", in any letter case
SaysNoMatch(text) ==
    Contains("no match", Lower(text)) \/ Contains("not found", Lower(text))

\* C10: check_whois never raises and maps every WHOIS outcome: no registration
\* record gives DoesNotExist, a parser error whose text says no match / not
\* found gives DoesNotExist, a record with a creation date gives Exists (the
\* first element when the date is a list), any other exception gives Unknown.
C10_WhoisMapping ==
    (flow = Comprehensive /\ whois_in.kind # "none")
        => /\ "whois" \in DOMAIN checks
           /\ whois_in.kind = "return" =>
                 /\ whois_in.value.domain_name = PyNone
                       => checks["whois"].exists = PyFalse
                 /\ (/\ whois_in.value.domain_name # PyNone
                     /\ Len(whois_in.value.creation_date.items) > 0)
                       => /\ checks["whois"].exists = PyTrue
                          /\ Contains(whois_in.value.creation_date.items[1],
                                      checks["whois"].message)
           /\ whois_in.kind = "raise" =>
                 IF whois_in.cls = "PywhoisError" /\ SaysNoMatch(whois_in.text)
                 THEN checks["whois"].exists = PyFalse
                 ELSE checks["whois"].exists = PyNone

---------------------------------------------------------------------------
(* generate_domain_variations *)

\* the loops are nested the other way round: extensions outside
RECURSIVE VariationsFrom_ExtensionsOuter(_, _, _)
VariationsFrom_ExtensionsOuter(base_lower, sufs, exts) ==
    IF Len(exts) = 0 THEN <<>>
    ELSE [i \in 1..Len(sufs) |-> base_lower \o sufs[i] \o Head(exts)]
             \o VariationsFrom_ExtensionsOuter(base_lower, sufs, Tail(exts))

\* `for suffix in self.suffixes: ... for ext in self.extensions: append`
RECURSIVE VariationsFrom(_, _, _)
VariationsFrom(base_lower, sufs, exts) ==
    IF Len(sufs) = 0 THEN <<>>
    ELSE LET suffix == Head(sufs)
             domain_name == IF suffix # "" THEN base_lower \o suffix ELSE base_lower
         IN  [i \in 1..Len(exts) |-> domain_name \o exts[i]]
                 \o VariationsFrom(base_lower, Tail(sufs), exts)

generate_domain_variations(name, sufs, exts) ==
    VariationsFrom(Lower(name), sufs, exts)

\* nothing of a domain assessment is running
AssessIdle ==
    /\ flow = "none"
    /\ pc = "idle"
    /\ dns_in = NotRun
    /\ whois_in = NotRun
    /\ http_in = <<>>
    /\ tried = <<>>
    /\ checks = <<>>
    /\ idx = 0
    /\ availability_score = 0
    /\ total_checks = 0
    /\ results = NoResults

MaxGenSuffixes == 2

MaxGenExtensions == 2

SeqsUpTo(S, n) == UNION {[1..k -> S] : k \in 0..n}

\* a checker object with some name, suffix list and extension list
GenInit ==
    /\ AssessIdle
    /\ BatchIdle
    /\ JsonIdle
    /\ FixIdle
    /\ base_name \in {"", "ACME", "Vexoly"}
    /\ suffixes \in SeqsUpTo({"", "hq"}, MaxGenSuffixes)
    /\ extensions \in SeqsUpTo({".com", ".io"}, MaxGenExtensions)
    /\ variations = <<>>
    /\ first_variations = <<>>
    /\ calls = 0

\* variations = self.generate_domain_variations(base_name), called up to twice
GenCall ==
    /\ calls < 2
    /\ variations' = generate_domain_variations(base_name, suffixes, extensions)
    /\ first_variations' = IF calls = 0 THEN variations' ELSE first_variations
    /\ calls' = calls + 1
    /\ UNCHANGED <<assessVars, batchVars, jsonVars, fixVars, suffixes, extensions,
                   base_name>>

GenNext == GenCall

GenSpec == GenInit /\ [][GenNext]_vars

\* C11: generate_domain_variations returns exactly |suffixes| * |extensions|
\* strings, in the order of the outer loop over suffixes and the inner loop
\* over extensions, each lowercase(name) + suffix + extension; a second call
\* with the same inputs returns the same sequence; an empty name or an empty
\* suffix or extension list gives an empty or degenerate sequence.
C11_Variations ==
    calls > 0 =>
        /\ Len(variations) = Len(suffixes) * Len(extensions)
        /\ \A i \in 1..Len(suffixes) : \A j \in 1..Len(extensions) :
              variations[(i - 1) * Len(extensions) + j]
                  = Lower(base_name) \o suffixes[i] \o extensions[j]
        /\ variations = first_variations
        /\ (Len(suffixes) = 0 \/ Len(extensions) = 0) => variations = <<>>

C11_Witness ==
    /\ calls = 2
    /\ base_name = "ACME"
    /\ suffixes = <<"", "hq">>
    /\ extensions = <<".com", ".io">>
    /\ variations = <<"acme.com", "acme.io", "acmehq.com", "acmehq.io">>

---------------------------------------------------------------------------
(* Properties of the DNS-first scripts *)

\* the resolver's name-not-found answer (EAI_NONAME)
IsNameNotFound(o) ==
    /\ o.kind = "raise"
    /\ o.cls = "gaierror"
    /\ \/ Contains("Name or service not known", o.text)
       \/ Contains("nodename nor servname provided", o.text)

\* the DNS probe of the script has reported Unknown
ProbeSaysUnknown ==
    CASE flow = QuickCheck -> pc = "done" /\ results.status = "UNKNOWN"
      [] flow = CheckDomainAvailability -> pc = "done" /\ results.available = PyNone
      [] flow = ComprehensiveCheck -> "dns" \in DOMAIN checks /\ checks["dns"].exists = PyNone
      [] flow = TestDomainCheck -> "dns" \in DOMAIN checks /\ checks["dns"].exists = PyNone

\* C20: in quick_check, check_domain_availability,
\* verify_top_domains.comprehensive_check and test_domain_check a resolution
\* failure that is not a name-not-found answer (a timeout, a transient
\* resolver error) is reported as Unknown, never as available.
C20_TransientDnsIsUnknown ==
    (/\ flow \in {QuickCheck, CheckDomainAvailability, ComprehensiveCheck, TestDomainCheck}
     /\ dns_in.kind = "raise"
     /\ ~IsNameNotFound(dns_in))
        => ProbeSaysUnknown

---------------------------------------------------------------------------
(* check_business_name and run_comprehensive_check: the worker's call *)

\* check_http_response as a whole: the for loop over the protocols, given
\* what each self.session.get does
RECURSIVE http_response_from(_, _)
http_response_from(i, os) ==
    IF i > Len(protocols) THEN http_response_exhausted
    ELSE LET r == http_response_attempt(protocols[i], os[i])
         IN  IF r = Continue THEN http_response_from(i + 1, os) ELSE r

check_http_response(os) == http_response_from(1, os)

\* what the network answers for one domain: the resolver call, the WHOIS
\* call, the HTTP attempts, and a failure of the worker's call itself
Probe(dns, whois, http) ==
    [dns |-> dns, whois |-> whois, http |-> http, fault |-> NotRun]

\* nothing answers: every signal says the domain does not exist
Free ==
    Probe(Raised("NXDOMAIN", "The DNS query name does not exist"),
          Returned(WhoisEntry(PyNone, NoDate)),
          <<Raised("requests.ConnectionError", "Failed to establish a new connection"),
            Raised("requests.ConnectionError", "Failed to establish a new connection")>>)

\* the resolver times out, the other two say the domain does not exist
FreeNoDns ==
    Probe(Raised("LifetimeTimeout", "The resolution lifetime expired"),
          Returned(WhoisEntry(PyNone, NoDate)),
          <<Raised("requests.Timeout", "Read timed out"),
            Raised("requests.Timeout", "Read timed out")>>)

\* registered, resolving and serving
Taken ==
    Probe(Returned("answer"),
          Returned(WhoisEntry("EXAMPLE.COM", OneDate("2019-05-01 00:00:00"))),
          <<Returned(200), Returned(200)>>)

\* resolving, but no WHOIS record and no web server
Parked ==
    Probe(Returned("answer"),
          Raised("PywhoisError", "No match for domain"),
          <<Raised("requests.ConnectionError", "Failed to establish a new connection"),
            Raised("requests.Timeout", "Read timed out")>>)

\* the call of comprehensive_domain_check itself fails in the worker thread
Faulty ==
    [dns |-> NotRun, whois |-> NotRun, http |-> <<>>,
     fault |-> Raised("MemoryError", "")]

\* comprehensive_domain_check(domain) as run by a worker: the dict it returns,
\* or the exception that leaves it
comprehensive_domain_check(domain, w) ==
    IF w.fault # NotRun THEN w.fault
    ELSE LET d == check_dns_resolution(w.dns)
             wh == check_whois(w.whois)
             h == check_http_response(w.http)
             c == [t \in {"dns", "whois", "http"} |->
                      LET r == CASE t = "dns" -> d [] t = "whois" -> wh [] OTHER -> h
                      IN  [exists |-> r.exists, message |-> r.message]]
         IN  IF d.raised THEN Raised(d.exists, d.message)
             ELSE IF wh.raised THEN Raised(wh.exists, wh.message)
             ELSE IF h.raised THEN Raised(h.exists, h.message)
             ELSE Returned([domain |-> domain, checks |-> c] @@ Aggregate(c))

---------------------------------------------------------------------------
(* check_business_name: the summary and the selection *)

Range(f) == {f[i] : i \in DOMAIN f}

EndsWith(str, suffix) ==
    /\ Len(str) >= Len(suffix)
    /\ SubSeq(str, Len(str) - Len(suffix) + 1, Len(str)) = suffix

\* list.sort(key=..., reverse=True): descending and stable, elements with
\* equal keys keep the order they had; `greater` is the set of the pairs
\* <<x, y>> with key(x) > key(y), and sorted[i] is a[1..i] sorted
SortReverse(a, greater) ==
    LET sorted[i \in 0..Len(a)] ==
            IF i = 0 THEN <<>>
            ELSE LET prev == sorted[i - 1]
                     x == a[i]
                     pos == Cardinality({j \in 1..Len(prev) : <<x, prev[j]>> \notin greater})
                 IN  SubSeq(prev, 1, pos) \o <<x>> \o SubSeq(prev, pos + 1, Len(prev))
    IN  sorted[Len(a)]

\* key=lambda x: (x['confidence'] == 'High', x['score']), compared as tuples
OptionKeyGreater(x, y) ==
    LET hx == IF x.confidence = "High" THEN 1 ELSE 0
        hy == IF y.confidence = "High" THEN 1 ELSE 0
    IN  \/ hx > hy
        \/ hx = hy /\ x.score.num * y.score.den > y.score.num * x.score.den

\* the partition is made on another extension
IsCom_Net(d) == EndsWith(d.domain, ".net")

\* the pairs of options the sort key orders strictly
OptionOrder(a) == {p \in Range(a) \X Range(a) : OptionKeyGreater(p[1], p[2])}

IsCom(d) == EndsWith(d.domain, ".com")

IsNotCom(d) == ~EndsWith(d.domain, ".com")

\* the first available domain is taken, whatever its extension
best_com_option_First(available_domains) ==
    IF available_domains # <<>> THEN available_domains[1].domain ELSE PyNone

\* `# Find best .com option`
best_com_option(available_domains) ==
    LET com_options == SelectSeq(available_domains, IsCom)
    IN  IF com_options # <<>>
        THEN SortReverse(com_options, OptionOrder(com_options))[1].domain
        ELSE PyNone

\* `# Find best alternatives`
best_alternatives(available_domains) ==
    LET unsorted == SelectSeq(available_domains, IsNotCom)
        non_com_options == SortReverse(unsorted, OptionOrder(unsorted))
        top == IF Len(non_com_options) < 3 THEN Len(non_com_options) ELSE 3
    IN  [i \in 1..top |-> non_com_options[i].domain]

\* `# Generate summary` and the two selections
Summary(br) ==
    LET total_checked == Len(br.domains_checked)
        total_available == Len(br.available_domains)
    IN  [total_domains_checked |-> total_checked,
         likely_available |-> total_available,
         likely_registered |-> total_checked - total_available,
         availability_rate |-> IF total_checked > 0
                               THEN Percentage(total_available, total_checked)
                               ELSE Percentage(0, 1),
         best_com_option |-> best_com_option(br.available_domains),
         best_alternatives |-> best_alternatives(br.available_domains)]

---------------------------------------------------------------------------
(* check_business_name and run_comprehensive_check, step by step *)

\* ThreadPoolExecutor(max_workers=5)
max_workers == 5

Running == {i \in 1..Len(futures) : futures[i].state = "RUNNING"}

\* the pool has no worker thread to give a work item to
CanStart_Never(running) == FALSE

\* the pool runs every work item it is given at once
CanStart_NoLimit(running) == TRUE

\* a work item is taken from the queue when a worker thread is free to take it
CanStart(running) == Cardinality(running) < max_workers

\* `for name in self.candidate_names:` takes the next name and calls
\* check_business_name, which generates the variations, creates the executor
\* and submits one comprehensive_domain_check per variation
BeginName ==
    /\ bpc = "names"
    /\ name_i < Len(candidate_names)
    /\ LET business_name == candidate_names[name_i + 1]
           vs == generate_domain_variations(business_name, suffixes, extensions)
       IN  /\ business_results' =
                  [business_name |-> business_name, total_variations |-> Len(vs),
                   domains_checked |-> <<>>, available_domains |-> <<>>,
                   registered_domains |-> <<>>, summary |-> <<>>]
           /\ future_to_domain' = vs
           /\ futures' = [i \in 1..Len(vs) |-> [state |-> "PENDING", outcome |-> NotRun]]
    /\ name_i' = name_i + 1
    /\ yielded' = {}
    /\ bpc' = "collect"
    /\ UNCHANGED <<candidate_names, world, all_results>>
    /\ UNCHANGED <<assessVars, genVars, jsonVars, fixVars>>

\* a worker thread takes the oldest queued work item
WorkerStart ==
    /\ \E i \in 1..Len(futures) :
          /\ futures[i].state = "PENDING"
          /\ \A j \in 1..(i - 1) : futures[j].state # "PENDING"
          /\ CanStart(Running)
          /\ futures' = [futures EXCEPT ![i].state = "RUNNING"]
    /\ UNCHANGED <<candidate_names, world, bpc, name_i, future_to_domain, yielded,
                   business_results, all_results>>
    /\ UNCHANGED <<assessVars, genVars, jsonVars, fixVars>>

\* a worker thread's comprehensive_domain_check(domain) ends and sets the
\* future's result or exception
WorkerFinish ==
    /\ \E i \in 1..Len(futures) :
          /\ futures[i].state = "RUNNING"
          /\ futures' = [futures EXCEPT
                            ![i] = [state |-> "FINISHED",
                                    outcome |-> comprehensive_domain_check(
                                                    future_to_domain[i],
                                                    world[future_to_domain[i]])]]
    /\ UNCHANGED <<candidate_names, world, bpc, name_i, future_to_domain, yielded,
                   business_results, all_results>>
    /\ UNCHANGED <<assessVars, genVars, jsonVars, fixVars>>

\* the result is recorded only when the domain is likely available
Appended_OnlyAvailable(br, domain, result) ==
    IF Truthy(result.likely_available)
    THEN [br EXCEPT
            !.domains_checked = Append(@, result),
            !.available_domains =
                Append(@, [domain |-> domain,
                           confidence |-> result.confidence,
                           score |-> result.availability_score])]
    ELSE [br EXCEPT !.registered_domains = Append(@, domain)]

\* the domain is appended to registered_domains whatever the verdict
Appended_RegisteredAlways(br, domain, result) ==
    [br EXCEPT
       !.domains_checked = Append(@, result),
       !.available_domains =
           IF Truthy(result.likely_available)
           THEN Append(@, [domain |-> domain,
                           confidence |-> result.confidence,
                           score |-> result.availability_score])
           ELSE @,
       !.registered_domains = Append(@, domain)]

\* the appends of the try block for a result
Appended(br, domain, result) ==
    [br EXCEPT
       !.domains_checked = Append(@, result),
       !.available_domains =
           IF Truthy(result.likely_available)
           THEN Append(@, [domain |-> domain,
                           confidence |-> result.confidence,
                           score |-> result.availability_score])
           ELSE @,
       !.registered_domains =
           IF Truthy(result.likely_available) THEN @ ELSE Append(@, domain)]

\* the try block has no except clause
collect_NoExcept(br, domain, o) ==
    IF o.kind = "return"
    THEN [raised |-> FALSE, br |-> Appended(br, domain, o.value)]
    ELSE [raised |-> TRUE, br |-> br]

\* the try/except of the loop body: future.result() returns the worker's
\* dict or raises the worker's exception
collect(br, domain, o) ==
    IF o.kind = "return"
    THEN [raised |-> FALSE, br |-> Appended(br, domain, o.value)]
    ELSE [raised |-> FirstMatch(<<"Exception">>, o.cls) = 0, br |-> br]

\* one iteration of `for future in as_completed(future_to_domain):`
Collect ==
    /\ bpc = "collect"
    /\ \E i \in 1..Len(futures) :
          /\ futures[i].state = "FINISHED"
          /\ i \notin yielded
          /\ yielded' = yielded \cup {i}
          /\ LET c == collect(business_results, future_to_domain[i], futures[i].outcome)
             IN  /\ business_results' = c.br
                 /\ bpc' = IF c.raised THEN "raised" ELSE bpc
    /\ UNCHANGED <<candidate_names, world, name_i, future_to_domain, futures,
                   all_results>>
    /\ UNCHANGED <<assessVars, genVars, jsonVars, fixVars>>

\* the loop is left after the first future
BatchOver_FirstOnly(ys, fs) == ys # {} \/ Len(fs) = 0

\* as_completed has yielded every future it was given, each after it finished
BatchOver(ys, fs) == ys = 1..Len(fs)

\* as_completed is exhausted, the with block is left, the summary and the
\* selections are made, `return business_results`
BuildReport ==
    /\ bpc = "collect"
    /\ BatchOver(yielded, futures)
    /\ business_results' = [business_results EXCEPT !.summary = Summary(business_results)]
    /\ bpc' = "report"
    /\ UNCHANGED <<candidate_names, world, name_i, future_to_domain, futures,
                   yielded, all_results>>
    /\ UNCHANGED <<assessVars, genVars, jsonVars, fixVars>>

\* the rest of the for loop's body in run_comprehensive_check
RecordName ==
    /\ bpc = "report"
    /\ LET business_result == business_results
           os == all_results.overall_summary
           has_com == business_result.summary.best_com_option # PyNone
       IN  all_results' =
              [business_names |-> Append(all_results.business_names, business_result),
               overall_summary |->
                  [os EXCEPT
                     !.names_with_com_available = IF has_com THEN @ + 1 ELSE @,
                     !.best_opportunities =
                         IF has_com
                         THEN Append(@, [business_name |-> candidate_names[name_i],
                                         best_com_domain |->
                                             business_result.summary.best_com_option,
                                         total_available |->
                                             business_result.summary.likely_available])
                         ELSE @]]
    /\ bpc' = "names"
    /\ UNCHANGED <<candidate_names, world, name_i, future_to_domain, futures,
                   yielded, business_results>>
    /\ UNCHANGED <<assessVars, genVars, jsonVars, fixVars>>

\* key=lambda x: x['total_available']: the pairs the key orders strictly
TotalAvailableOrder(a) ==
    {p \in Range(a) \X Range(a) : p[1].total_available > p[2].total_available}

\* `# Sort best opportunities by total available domains`, `return all_results`
SortOpportunities ==
    /\ bpc = "names"
    /\ name_i = Len(candidate_names)
    /\ all_results' =
          [all_results EXCEPT
             !.overall_summary.best_opportunities = SortReverse(@, TotalAvailableOrder(@))]
    /\ bpc' = "done"
    /\ UNCHANGED <<candidate_names, world, name_i, future_to_domain, futures,
                   yielded, business_results>>
    /\ UNCHANGED <<assessVars, genVars, jsonVars, fixVars>>

BatchNext ==
    \/ BeginName
    \/ WorkerStart
    \/ WorkerFinish
    \/ Collect
    \/ BuildReport
    \/ RecordName
    \/ SortOpportunities

\* every domain the run will assess
AllDomains(names, sufs, exts) ==
    UNION {Range(generate_domain_variations(names[i], sufs, exts)) : i \in DOMAIN names}

\* run_comprehensive_check has built all_results and is about to enter its loop
RunStarts(names, sufs, exts) ==
    /\ AssessIdle
    /\ JsonIdle
    /\ FixIdle
    /\ base_name = ""
    /\ variations = <<>>
    /\ first_variations = <<>>
    /\ calls = 0
    /\ candidate_names = names
    /\ suffixes = sufs
    /\ extensions = exts
    /\ bpc = "names"
    /\ name_i = 0
    /\ future_to_domain = <<>>
    /\ futures = <<>>
    /\ yielded = {}
    /\ business_results = NoReport
    /\ all_results = [NoRun EXCEPT !.overall_summary.total_names_checked = Len(names)]

\* one name with four variations, any mix of free, parked and taken domains
BatchInit ==
    /\ RunStarts(<<"VEXOLY">>, <<"", "hq">>, <<".com", ".net">>)
    /\ world \in [AllDomains(<<"VEXOLY">>, <<"", "hq">>, <<".com", ".net">>)
                      -> {Free, FreeNoDns, Parked, Taken}]

BatchSpec == BatchInit /\ [][BatchNext]_vars

---------------------------------------------------------------------------
(* Properties of check_business_name *)

\* check_business_name has returned the report now in business_results
Built == bpc \in {"report", "names", "done"} /\ name_i > 0

\* position of a domain in what generate_domain_variations returned
GenIndex(d) == CHOOSE i \in 1..Len(future_to_domain) : future_to_domain[i] = d

\* the available_domains entry of a domain
Entry(d) == CHOOSE e \in Range(business_results.available_domains) : e.domain = d

Tie(x, y) == ~OptionKeyGreater(x, y) /\ ~OptionKeyGreater(y, x)

\* C12: when two available domains of one partition (.com / not .com) have
\* equal confidence-is-High and equal score, the one generated earlier is
\* ranked first in best_com_option / best_alternatives, however the worker
\* pool interleaves the assessments.
C12_TiesByGenerationOrder ==
    Built =>
        LET av == business_results.available_domains
            best == business_results.summary.best_com_option
            alt == business_results.summary.best_alternatives
        IN  /\ best # PyNone =>
                  \A x \in Range(av) :
                      (IsCom(x) /\ Tie(x, Entry(best)))
                          => GenIndex(best) <= GenIndex(x.domain)
            /\ \A i, j \in 1..Len(alt) :
                  (i < j /\ Tie(Entry(alt[i]), Entry(alt[j])))
                      => GenIndex(alt[i]) < GenIndex(alt[j])
            /\ \A i \in 1..Len(alt) : \A x \in Range(av) :
                  (/\ IsNotCom(x)
                   /\ x.domain \notin Range(alt)
                   /\ Tie(x, Entry(alt[i])))
                      => GenIndex(alt[i]) < GenIndex(x.domain)

\* one name with four variations; the assessment of one of them fails
FaultInit ==
    /\ RunStarts(<<"VEXOLY">>, <<"", "hq">>, <<".com", ".net">>)
    /\ world \in [AllDomains(<<"VEXOLY">>, <<"", "hq">>, <<".com", ".net">>)
                      -> {Free, Taken, Faulty}]
    /\ Cardinality({d \in DOMAIN world : world[d] = Faulty}) = 1

\* worker threads run, and the collecting thread goes on, whenever they can
FaultSpec == FaultInit /\ [][BatchNext]_vars /\ WF_vars(BatchNext)

\* the domains_checked entries of a domain
CheckedEntries(br, d) ==
    {k \in 1..Len(br.domains_checked) : br.domains_checked[k].domain = d}

\* the failing variation is in none of the collections, every other one is
\* in domains_checked once, with the assessment its worker returned
Isolated ==
    /\ bpc # "raised"
    /\ Built =>
          \A d \in Range(future_to_domain) :
              IF world[d] = Faulty
              THEN /\ CheckedEntries(business_results, d) = {}
                   /\ d \notin Range(business_results.registered_domains)
                   /\ \A e \in Range(business_results.available_domains) : e.domain # d
              ELSE /\ Cardinality(CheckedEntries(business_results, d)) = 1
                   /\ \A k \in CheckedEntries(business_results, d) :
                         Returned(business_results.domains_checked[k])
                             = comprehensive_domain_check(d, world[d])

\* C13: if comprehensive_domain_check raises for one variation,
\* check_business_name still returns, every other variation of the name is
\* in domains_checked exactly once with its own assessment, and the failing
\* domain is omitted.
C13_FailureIsolated == []Isolated /\ <>Built

C13_Witness ==
    /\ Built
    /\ \E i \in 1..Len(futures) : futures[i].outcome.kind = "raise"
    /\ Len(business_results.domains_checked) = Len(future_to_domain) - 1
    /\ business_results.available_domains # <<>>

\* one name with six variations, more than the pool has worker threads
PoolInit ==
    /\ RunStarts(<<"VEXOLY">>, <<"", "hq", "io">>, <<".com", ".net">>)
    /\ world \in [AllDomains(<<"VEXOLY">>, <<"", "hq", "io">>, <<".com", ".net">>)
                      -> {Taken}]

PoolSpec == PoolInit /\ [][BatchNext]_vars

\* C14: at every moment of check_business_name at most 5 calls of
\* comprehensive_domain_check are executing, however many variations were
\* submitted.
C14_AtMostFiveRunning == Cardinality(Running) <= 5

C14_Witness ==
    /\ Cardinality(Running) = 5
    /\ \E i \in 1..Len(futures) : futures[i].state = "PENDING"

---------------------------------------------------------------------------
(* Properties of run_comprehensive_check *)

\* two names with two variations each, any mix of free, parked and taken domains
RunInit ==
    /\ RunStarts(<<"VEXOLY", "ZEPHYX">>, <<"">>, <<".com", ".net">>)
    /\ world \in [AllDomains(<<"VEXOLY", "ZEPHYX">>, <<"">>, <<".com", ".net">>)
                      -> {Free, Parked, Taken}]

RunSpec == RunInit /\ [][BatchNext]_vars

\* assessments are pending or running only inside check_business_name, and
\* they are assessments of the current name's variations
OnlyCurrentName ==
    (\E i \in 1..Len(futures) : futures[i].state \in {"PENDING", "RUNNING"})
        => /\ bpc = "collect"
           /\ future_to_domain = generate_domain_variations(candidate_names[name_i],
                                                            suffixes, extensions)

\* C15: in run_comprehensive_check no assessment of a later name starts until
\* every assessment of the previous name has finished and that name's report
\* has been built; assessments of two names are never in flight together.
C15_NamesOneAtATime ==
    /\ []OnlyCurrentName
    /\ [][name_i' # name_i =>
             /\ \A i \in 1..Len(futures) : futures[i].state = "FINISHED"
             /\ Len(all_results.business_names) = name_i
             /\ \A i \in 1..Len(futures') : futures'[i].state = "PENDING"]_vars

C15_Witness ==
    /\ name_i = 2
    /\ Running # {}
    /\ Len(all_results.business_names) = 1
    /\ all_results.business_names[1].business_name = "VEXOLY"

---------------------------------------------------------------------------
(* Properties of the selection *)

\* one name with five variations, four of them not .com, each free or taken
SelectInit ==
    /\ RunStarts(<<"VEXOLY">>, <<"">>, <<".com", ".net", ".org", ".io", ".app">>)
    /\ world \in [AllDomains(<<"VEXOLY">>, <<"">>,
                             <<".com", ".net", ".org", ".io", ".app">>)
                      -> {Free, Taken}]

SelectSpec == SelectInit /\ [][BatchNext]_vars

\* the sort key, read from a Domain Assessment
AssessmentKeyGreater(x, y) ==
    OptionKeyGreater([confidence |-> x.confidence, score |-> x.availability_score],
                     [confidence |-> y.confidence, score |-> y.availability_score])

Assessed(d) == CHOOSE r \in Range(business_results.domains_checked) : r.domain = d

---------------------------------------------------------------------------
(* Properties of the opportunity ranking *)

\* the report run_comprehensive_check recorded for a name
ReportOf(name) ==
    CHOOSE r \in Range(all_results.business_names) : r.business_name = name

\* the pair (has an available .com, count of likely-available domains)
PairGeq(n1, n2) ==
    LET c1 == IF ReportOf(n1).summary.best_com_option # PyNone THEN 1 ELSE 0
        c2 == IF ReportOf(n2).summary.best_com_option # PyNone THEN 1 ELSE 0
        t1 == ReportOf(n1).summary.likely_available
        t2 == ReportOf(n2).summary.likely_available
    IN  c1 > c2 \/ (c1 = c2 /\ t1 >= t2)

\* C18: the opportunity ranking lists every processed name, ordered by the
\* pair (has an available .com, count of likely-available domains of the
\* name), descending.
C18_RanksEveryName ==
    bpc = "done" =>
        LET bo == all_results.overall_summary.best_opportunities
        IN  /\ Len(bo) = Len(candidate_names)
            /\ {bo[i].business_name : i \in 1..Len(bo)} = Range(candidate_names)
            /\ \A i, j \in 1..Len(bo) :
                  i < j => PairGeq(bo[i].business_name, bo[j].business_name)

---------------------------------------------------------------------------
(* Properties of the worker threads *)

\* the objects a worker thread reads or writes while it runs
\* comprehensive_domain_check: the results dict it builds, and the
\* requests.Session made in __init__, through self.session.get
WorkerObjects(i) == {"results of " \o future_to_domain[i], "self.session"}

\* C19: workers share no mutable state: no worker thread reads or writes an
\* object that another worker can mutate.
C19_WorkersShareNothing ==
    \A i, j \in Running : i # j => WorkerObjects(i) \cap WorkerObjects(j) = {}

---------------------------------------------------------------------------
(* Properties of the HTTP check and of the DNS-first flows *)

\* an HTTP attempt that got a response, and the status of that response
GotResponse(o) == o.kind = "return" \/ (o.kind = "raise" /\ IsInstance(o.cls, "HTTPError"))

StatusOf(o) == IF o.kind = "return" THEN o.value ELSE o.code

\* C22: the HTTP check tries https first and tries http only if the https
\* attempt got no response; the first scheme that yields a response decides
\* the verdict (200 Exists, 404 DoesNotExist, any other status Exists), and
\* no scheme is tried after a response.
C22_HttpsFirst ==
    flow \in {Comprehensive, Quick} =>
        /\ Len(tried) <= Len(protocols)
        /\ \A i \in 1..Len(tried) : tried[i] = protocols[i]
        /\ protocols[1] = "https://"
        /\ Len(tried) = 2 => AttemptFailed(http_in[1])
        /\ \A i \in 1..Len(http_in) :
              GotResponse(http_in[i]) =>
                  /\ i = Len(http_in)
                  /\ HttpReturned
                  /\ checks["http"].exists =
                        IF StatusOf(http_in[i]) = 404 THEN PyFalse ELSE PyTrue

C22_Witness ==
    /\ flow = Comprehensive
    /\ tried = <<"https://", "http://">>
    /\ AttemptFailed(http_in[1])
    /\ GotResponse(http_in[2])
    /\ StatusOf(http_in[2]) = 403
    /\ HttpReturned
    /\ checks["http"].exists = PyTrue

\* the HTTP probe of a DNS-first flow was skipped
HttpSkipped == "http" \in DOMAIN checks /\ Len(tried) = 0

\* C23: in quick_availability_check and verify_top_domains.comprehensive_check
\* the HTTP probe is skipped only when DNS proved non-existence
\* (DoesNotExist); a DNS result of Exists or Unknown does not skip it.
C23_SkipOnlyOnDoesNotExist ==
    (flow \in {Quick, ComprehensiveCheck} /\ HttpSkipped)
        => checks["dns"].exists = PyFalse

---------------------------------------------------------------------------
(* Properties of the assessments the real checkers can produce *)

\* C25: check_http_response never returns Unknown, so every assessment of
\* comprehensive_domain_check has a known signal: total_checks >= 1,
\* availability_score is present, and likely_available = None with
\* confidence Unknown does not occur.
C25_AlwaysOneKnownSignal ==
    /\ (flow = Comprehensive /\ "http" \in DOMAIN checks) => Sig("http") # PyNone
    /\ Done =>
          /\ total_checks >= 1
          /\ NumKnown >= 1
          /\ HasScore
          /\ results.likely_available # PyNone
          /\ results.confidence # "Unknown"

C25_Witness ==
    /\ Done
    /\ Sig("dns") = PyNone
    /\ Sig("whois") = PyNone
    /\ total_checks = 1
    /\ \A i \in 1..Len(http_in) : AttemptFailed(http_in[i])

C29_VerdictFromDnsAlone ==
    /\ (flow = Quick /\ pc = "done") =>
          results.likely_available =
              CASE Sig("dns") = PyFalse -> PyTrue
                [] Sig("dns") = PyTrue -> PyFalse
                [] OTHER -> PyNone
    /\ (flow = ComprehensiveCheck /\ pc = "done") =>
          (results.likely_status = "AVAILABLE" <=> Sig("dns") = PyFalse)
    /\ (flow = TestDomainCheck /\ pc = "done") =>
          (results.status = "LIKELY_AVAILABLE" <=> Sig("dns") = PyFalse)

C29_Witness ==
    /\ flow = Quick
    /\ pc = "done"
    /\ Sig("dns") = PyTrue
    /\ Len(http_in) = 2
    /\ Sig("http") = PyFalse
    /\ results.likely_available = PyFalse
    /\ results.confidence = "Medium"

---------------------------------------------------------------------------
(* Properties of the report's counts *)

\* C27: every collected assessment is in exactly one of available_domains
\* (iff likely_available is true) and registered_domains, so
\* len(available_domains) + len(registered_domains) = len(domains_checked),
\* and on return that is total_domains_checked <= total_variations, and
\* likely_available + likely_registered = total_domains_checked.
C27_CollectedOnce ==
    LET br == business_results
        av == {e.domain : e \in Range(br.available_domains)}
        reg == Range(br.registered_domains)
    IN  /\ Len(br.available_domains) + Len(br.registered_domains)
              = Len(br.domains_checked)
        /\ \A k \in 1..Len(br.domains_checked) :
              LET r == br.domains_checked[k]
              IN  /\ r.domain \in av <=> Truthy(r.likely_available)
                  /\ r.domain \in reg <=> ~Truthy(r.likely_available)
        /\ Built =>
              /\ br.summary.total_domains_checked = Len(br.domains_checked)
              /\ br.summary.total_domains_checked <= br.total_variations
              /\ br.summary.likely_available = Len(br.available_domains)
              /\ br.summary.likely_registered = Len(br.registered_domains)
              /\ br.summary.likely_available + br.summary.likely_registered
                    = br.summary.total_domains_checked

C27_Witness ==
    /\ Built
    /\ Len(business_results.available_domains) = 2
    /\ Len(business_results.registered_domains) = 1
    /\ business_results.summary.total_domains_checked = 3
    /\ business_results.total_variations = 4

\* C28: best_com_option is non-null iff available_domains holds a domain
\* ending in .com, and then it is one of those; names_with_com_available
\* always equals the length of best_opportunities, which holds exactly the
\* recorded names whose best_com_option is non-null.
C28_ComOptionAndCount ==
    LET os == all_results.overall_summary
        bo == os.best_opportunities
        reports == all_results.business_names
    IN  /\ Built =>
              LET coms == {e.domain : e \in {x \in Range(business_results.available_domains) :
                                                 EndsWith(x.domain, ".com")}}
                  best == business_results.summary.best_com_option
              IN  /\ best # PyNone <=> coms # {}
                  /\ best # PyNone => best \in coms
        /\ os.names_with_com_available = Len(bo)
        /\ {bo[i].business_name : i \in 1..Len(bo)}
              = {reports[k].business_name :
                    k \in {j \in 1..Len(reports) :
                              reports[j].summary.best_com_option # PyNone}}
        /\ \A i \in 1..Len(bo) :
              bo[i].best_com_domain = ReportOf(bo[i].business_name).summary.best_com_option

C28_Witness ==
    /\ bpc = "done"
    /\ all_results.overall_summary.names_with_com_available = 1
    /\ Len(all_results.business_names) = 2
    /\ all_results.business_names[1].summary.best_com_option = PyNone
    /\ all_results.business_names[1].available_domains # <<>>
    /\ all_results.business_names[2].summary.best_com_option = "zephyx.com"

---------------------------------------------------------------------------
(* Termination of a run *)

\* two names with two variations each; an assessment returns or raises
LiveInit ==
    /\ RunStarts(<<"VEXOLY", "ZEPHYX">>, <<"">>, <<".com", ".net">>)
    /\ world \in [AllDomains(<<"VEXOLY", "ZEPHYX">>, <<"">>, <<".com", ".net">>)
                      -> {Free, Taken, Faulty}]

\* every probe call returns or raises, so a running assessment ends; the
\* pool's threads are scheduled fairly; the thread of
\* run_comprehensive_check goes on whenever it can
LiveSpec ==
    /\ LiveInit
    /\ [][BatchNext]_vars
    /\ WF_vars(WorkerStart)
    /\ WF_vars(WorkerFinish)
    /\ WF_vars(BeginName \/ Collect \/ BuildReport \/ RecordName \/ SortOpportunities)

\* run_comprehensive_check has returned
Returned_all_results == bpc = "done"

\* C24: if every probe call returns or raises and the workers are scheduled
\* fairly, run_comprehensive_check eventually returns, having processed every
\* candidate name in list order and collected the future of every submitted
\* variation.
C24_RunCompletes ==
    /\ <>Returned_all_results
    /\ [](Returned_all_results =>
             /\ name_i = Len(candidate_names)
             /\ Len(all_results.business_names) = Len(candidate_names)
             /\ \A k \in 1..Len(candidate_names) :
                   all_results.business_names[k].business_name = candidate_names[k])
    /\ [][bpc = "collect" /\ bpc' = "report" =>
             /\ yielded = 1..Len(future_to_domain)
             /\ \A i \in 1..Len(futures) : futures[i].state = "FINISHED"]_vars

C24_Witness ==
    /\ Returned_all_results
    /\ Len(all_results.business_names) = 2
    /\ \E i \in 1..Len(futures) : futures[i].outcome.kind = "raise"
    /\ \E i \in 1..Len(futures) : futures[i].outcome.kind = "return"

---------------------------------------------------------------------------
(* Properties of the serialized result document *)

ConfidenceLabels == {"High", "Medium", "Low", "Unknown"}

---------------------------------------------------------------------------
(* frontend/fix_api_urls.py: rewriting hardcoded API URLs in the sources *)

ApiUrlSingle == "'http://localhost:3001/api/v1"
ApiUrlDouble == "\"http://localhost:3001/api/v1"
EnvFallback == "process.env.NEXT_PUBLIC_API_URL || "

\* the second replacement makes the URL relative
PATTERNS_Relative ==
    <<[pattern |-> EnvFallback \o ApiUrlSingle \o "'",
       replacement |-> EnvFallback \o "'http://localhost:3001'"],
      [pattern |-> ApiUrlSingle, replacement |-> "'/api/v1"],
      [pattern |-> ApiUrlDouble, replacement |-> "\"http://localhost:3001"]>>

\* PATTERNS: each regex has only escaped metacharacters, so it matches
\* exactly one text, given here
PATTERNS ==
    <<[pattern |-> EnvFallback \o ApiUrlSingle \o "'",
       replacement |-> EnvFallback \o "'http://localhost:3001'"],
      [pattern |-> ApiUrlSingle, replacement |-> "'http://localhost:3001"],
      [pattern |-> ApiUrlDouble, replacement |-> "\"http://localhost:3001"]>>

\* re.subn: the leftmost non-overlapping matches replaced, and their number
RECURSIVE subn(_, _, _)
subn(pattern, replacement, content) ==
    LET n == Len(pattern)
        starts == {i \in 1..(Len(content) - n + 1) :
                      SubSeq(content, i, i + n - 1) = pattern}
    IN  IF starts = {}
        THEN [content |-> content, count |-> 0]
        ELSE LET i == CHOOSE j \in starts : \A k \in starts : j <= k
                 r == subn(pattern, replacement,
                           SubSeq(content, i + n, Len(content)))
             IN  [content |-> SubSeq(content, 1, i - 1) \o replacement \o r.content,
                  count |-> r.count + 1]

\* the loop of fix_file over PATTERNS, from pattern number i on
RECURSIVE fix_content(_, _)
fix_content(content, i) ==
    IF i > Len(PATTERNS)
    THEN [content |-> content, changes_made |-> 0]
    ELSE LET r == subn(PATTERNS[i].pattern, PATTERNS[i].replacement, content)
             rest == fix_content(r.content, i + 1)
         IN  [content |-> rest.content, changes_made |-> r.count + rest.changes_made]

\* fix_file: the file afterwards and the number returned; a failing open,
\* for reading or for writing, is caught and leaves the file as it was
fix_file(file) ==
    IF ~file.readable
    THEN [file |-> file, changes |-> 0]
    ELSE LET r == fix_content(file.content, 1)
         IN  IF r.content # file.content
             THEN IF file.writable
                  THEN [file |-> [file EXCEPT !.content = r.content],
                        changes |-> r.changes_made]
                  ELSE [file |-> file, changes |-> 0]
             ELSE [file |-> file, changes |-> 0]

\* the test of find_files_with_issues on the text of a file
HasIssues(content) ==
    /\ Contains("localhost:3001", content)
    /\ ~Contains("8182", content)
    /\ ~Contains("health-check", content)

\* the paths rglob('*.ts*') yields under pages and src, in its order
Paths == <<"pages/index.tsx", "src/api.ts", "src/node_modules/lib.ts">>

Skipped(path) == Contains("node_modules", path) \/ Contains(".next", path)

\* find_files_with_issues: a file that cannot be read is reported and left out
find_files_with_issues(fs) ==
    SelectSeq(Paths, LAMBDA path :
        /\ ~Skipped(path)
        /\ fs[path].readable
        /\ HasIssues(fs[path].content))

\* texts of source files
FixContents ==
    {"const u = " \o EnvFallback \o ApiUrlSingle \o "';",
     "get(" \o ApiUrlSingle \o "/menu')",
     "get(" \o ApiUrlDouble \o "/menu\")",
     ApiUrlSingle \o "' + " \o ApiUrlDouble \o "/x\"",
     "get('http://localhost:3001/menu')",
     "get(" \o ApiUrlSingle \o "/health-check')",
     ApiUrlSingle \o "'; 'http://localhost:8182'",
     ApiUrlSingle \o "-check/182'",
     "export default 1"}

FixFiles ==
    {f \in [readable : BOOLEAN, writable : BOOLEAN, content : FixContents] :
        f.readable \/ f.writable}

\* main is entered
FixInit ==
    /\ AssessIdle
    /\ BatchIdle
    /\ JsonIdle
    /\ suffixes = <<>>
    /\ extensions = <<>>
    /\ base_name = ""
    /\ variations = <<>>
    /\ first_variations = <<>>
    /\ calls = 0
    /\ files \in [{Paths[i] : i \in 1..Len(Paths)} -> FixFiles]
    /\ files["src/node_modules/lib.ts"].readable
    /\ files["src/node_modules/lib.ts"].writable
    /\ fpc = "start"
    /\ files_to_fix = <<>>
    /\ fix_i = 0
    /\ fixed_files = 0
    /\ total_changes = 0
    /\ remaining = <<>>

\* files_to_fix = find_files_with_issues(), and the early return
Scan ==
    /\ fpc = "start"
    /\ files_to_fix' = find_files_with_issues(files)
    /\ fpc' = IF files_to_fix' = <<>> THEN "none_found" ELSE "fixing"
    /\ UNCHANGED <<files, fix_i, fixed_files, total_changes, remaining>>
    /\ UNCHANGED <<assessVars, genVars, batchVars, jsonVars>>

\* one round of the loop over files_to_fix
FixOne ==
    /\ fpc = "fixing"
    /\ fix_i < Len(files_to_fix)
    /\ LET file_path == files_to_fix[fix_i + 1]
           r == fix_file(files[file_path])
       IN  /\ files' = [files EXCEPT ![file_path] = r.file]
           /\ fixed_files' = IF r.changes > 0 THEN fixed_files + 1 ELSE fixed_files
           /\ total_changes' = IF r.changes > 0 THEN total_changes + r.changes
                               ELSE total_changes
    /\ fix_i' = fix_i + 1
    /\ UNCHANGED <<fpc, files_to_fix, remaining>>
    /\ UNCHANGED <<assessVars, genVars, batchVars, jsonVars>>

\* remaining = find_files_with_issues(), and the message printed
Verify ==
    /\ fpc = "fixing"
    /\ fix_i = Len(files_to_fix)
    /\ remaining' = find_files_with_issues(files)
    /\ fpc' = IF remaining' # <<>> THEN "still_issues" ELSE "all_fixed"
    /\ UNCHANGED <<files, files_to_fix, fix_i, fixed_files, total_changes>>
    /\ UNCHANGED <<assessVars, genVars, batchVars, jsonVars>>

FixNext ==
    \/ Scan
    \/ FixOne
    \/ Verify

FixSpec == FixInit /\ [][FixNext]_vars

====
